---- MODULE Spec2Model ----
(***************************************************************************)
(* Model of the compliance rule evaluation engine of obs-infra:            *)
(* SecurityComplianceScanner (src/src/security/compliance_scanner.py).     *)
(*                                                                         *)
(* The scanner owns a rule catalog (self.rules) and the results of the     *)
(* last scan (self.results).  scan_all walks the catalog, resolves each    *)
(* rule's check by name on the scanner object, invokes it inside a         *)
(* try/except Exception, and folds the collected results into a summary.   *)
(* export_results_csv / export_results_html join self.results back to the  *)
(* catalog and write one row per result.                                   *)
(***************************************************************************)
EXTENDS Naturals, Integers, Sequences, FiniteSets, TLC

VARIABLES
    rules,        \* self.rules: the catalog, a sequence of ComplianceRule
    results,      \* self.results: results stored by the last finished scan
    pc,           \* "idle", "scanning" (inside the for loop of scan_all) or
                  \* "aborted" (an exception left scan_all)
    idx,          \* position in self.rules of the rule the loop runs next
    all_results,  \* the local accumulator all_results of scan_all
    ret,          \* <<value returned by the last scan_all>>, <<>> before
    csv_file,     \* <<rows written by export_results_csv>>, <<>> if no file
    html_file,    \* <<document of export_results_html>>, <<>> if no file
    calls,        \* history: one entry per loop iteration of scan_all
    cli,          \* position of the compliance_scan command that drives the
                  \* scanner: "start", "scan", "csv", "html", "report",
                  \* "exit0", "exit1"; "none" when the scanner is used directly
    fuzzer,       \* an ApiFuzzer (test-suite/src/fuzz/api-fuzzer.py)
    runner,       \* a TestRunner (test-suite/src/test-runner.py)
    tester        \* an EksIntegrationTester (src/tests/eks_integration_test.py)
                  \* and the validate_infrastructure command that drives it

vars == <<rules, results, pc, idx, all_results, ret, csv_file, html_file, calls, cli,
          fuzzer, runner, tester>>

\* The state of the compliance scanner and of the command that drives it
scanner_vars == <<rules, results, pc, idx, all_results, ret, csv_file, html_file,
                  calls, cli>>

(***************************************************************************)
(* Bounds                                                                  *)
(***************************************************************************)
MaxRules == 2      \* longest custom catalog
MaxPerRule == 2    \* longest list a plug-in check returns
MaxKeys == 2       \* IAM access keys seen by check_access_key_rotation
MaxVpcs == 1       \* VPCs seen by check_default_security_groups
MaxRescanRules == 1   \* longest catalog of a scanner that is scanned repeatedly
MaxCollected == 3     \* longest result list handed to the summary on its own

\* Absent values (no return value yet, no file written, no rule found) are
\* the empty sequence; present ones are one-element sequences
Absent == <<>>
Some(v) == <<v>>

(***************************************************************************)
(* Data model                                                              *)
(***************************************************************************)
ComplianceRule(id, title, severity, category, service, check_function) ==
    [id |-> id, title |-> title, severity |-> severity, category |-> category,
     service |-> service, check_function |-> check_function]

ComplianceResult(rule_id, status, resource_id, details, remediation) ==
    [rule_id |-> rule_id, status |-> status, resource_id |-> resource_id,
     details |-> details, remediation |-> remediation]

Statuses == {"PASS", "FAIL", "WARNING", "NOT_APPLICABLE", "ERROR"}

Severities == {"CRITICAL", "HIGH", "MEDIUM", "LOW"}

\* Variant: a rule added by copying another one keeps the id it was copied from
DefaultRules_CopiedId ==
    << ComplianceRule("SEC-IAM-001", "IAM Root Account MFA", "CRITICAL", "SECURITY", "IAM", "check_root_mfa"),
       ComplianceRule("SEC-IAM-002", "IAM Access Keys Rotation", "HIGH", "SECURITY", "IAM", "check_access_key_rotation"),
       ComplianceRule("SEC-VPC-001", "Default Security Group Restricts All Traffic", "HIGH", "SECURITY", "VPC", "check_default_security_groups"),
       ComplianceRule("SEC-EKS-001", "EKS Control Plane Logging Enabled", "MEDIUM", "SECURITY", "EKS", "check_eks_logging"),
       ComplianceRule("SEC-EKS-001", "EKS Cluster Private Endpoint", "HIGH", "SECURITY", "EKS", "check_eks_private_endpoint"),
       ComplianceRule("SEC-S3-001", "S3 Buckets Block Public Access", "CRITICAL", "SECURITY", "S3", "check_s3_public_access"),
       ComplianceRule("SEC-S3-002", "S3 Buckets Encrypted", "HIGH", "SECURITY", "S3", "check_s3_encryption"),
       ComplianceRule("SEC-AUDIT-001", "CloudTrail Enabled", "CRITICAL", "SECURITY", "CLOUDTRAIL", "check_cloudtrail_enabled"),
       ComplianceRule("FIN-EKS-001", "EKS Worker Node Encryption", "HIGH", "SECURITY", "EKS", "check_eks_node_encryption"),
       ComplianceRule("FIN-NET-001", "VPC Flow Logs Enabled", "HIGH", "SECURITY", "VPC", "check_vpc_flow_logs"),
       ComplianceRule("FIN-TAG-001", "Required Tags Present", "MEDIUM", "OPERATIONS", "GENERAL", "check_required_tags") >>

\* self.rules as built by _load_default_rules
DefaultRules ==
    << ComplianceRule("SEC-IAM-001", "IAM Root Account MFA", "CRITICAL", "SECURITY", "IAM", "check_root_mfa"),
       ComplianceRule("SEC-IAM-002", "IAM Access Keys Rotation", "HIGH", "SECURITY", "IAM", "check_access_key_rotation"),
       ComplianceRule("SEC-VPC-001", "Default Security Group Restricts All Traffic", "HIGH", "SECURITY", "VPC", "check_default_security_groups"),
       ComplianceRule("SEC-EKS-001", "EKS Control Plane Logging Enabled", "MEDIUM", "SECURITY", "EKS", "check_eks_logging"),
       ComplianceRule("SEC-EKS-002", "EKS Cluster Private Endpoint", "HIGH", "SECURITY", "EKS", "check_eks_private_endpoint"),
       ComplianceRule("SEC-S3-001", "S3 Buckets Block Public Access", "CRITICAL", "SECURITY", "S3", "check_s3_public_access"),
       ComplianceRule("SEC-S3-002", "S3 Buckets Encrypted", "HIGH", "SECURITY", "S3", "check_s3_encryption"),
       ComplianceRule("SEC-AUDIT-001", "CloudTrail Enabled", "CRITICAL", "SECURITY", "CLOUDTRAIL", "check_cloudtrail_enabled"),
       ComplianceRule("FIN-EKS-001", "EKS Worker Node Encryption", "HIGH", "SECURITY", "EKS", "check_eks_node_encryption"),
       ComplianceRule("FIN-NET-001", "VPC Flow Logs Enabled", "HIGH", "SECURITY", "VPC", "check_vpc_flow_logs"),
       ComplianceRule("FIN-TAG-001", "Required Tags Present", "MEDIUM", "OPERATIONS", "GENERAL", "check_required_tags") >>


\* Rules of hand-built catalogs (scanner.rules assigned by an embedding
\* program); the severity field is a free string in ComplianceRule, so one
\* rule carries a severity outside the four known ones.
CustomRules ==
    { ComplianceRule("CUST-001", "Alpha", "CRITICAL", "SECURITY", "IAM", "check_alpha"),
      ComplianceRule("CUST-002", "Beta", "LOW", "COST", "S3", "check_beta"),
      ComplianceRule("CUST-003", "Gamma", "MEDIUM", "OPERATIONS", "EKS", "check_gamma"),
      ComplianceRule("CUST-004", "Delta", "INFO", "PERFORMANCE", "VPC", "check_delta") }

\* Sequences over S of length at most n
RECURSIVE SeqsUpTo(_, _)
SeqsUpTo(S, n) ==
    IF n = 0 THEN { <<>> }
    ELSE LET shorter == SeqsUpTo(S, n - 1)
         IN  shorter \cup { Append(q, x) : q \in shorter, x \in S }

\* Catalogs a scanner can hold: the default one, or a hand-built one whose
\* rule ids are unique
CustomCatalogs ==
    { c \in SeqsUpTo(CustomRules, MaxRules) :
        \A i, j \in DOMAIN c : c[i].id = c[j].id => i = j }

Catalogs == { DefaultRules } \cup CustomCatalogs

(***************************************************************************)
(* The built-in checks.  Each takes the answers of the AWS API as input.   *)
(***************************************************************************)
\* Variant: the error branch carries the id of the neighbouring rule
check_root_mfa_ErrorUnderOtherId(raises, mfa) ==
    IF raises
    THEN << ComplianceResult("SEC-IAM-002", "ERROR", "root",
                             "Error checking: AccessDenied", "") >>
    ELSE IF mfa = 1
    THEN << ComplianceResult("SEC-IAM-001", "PASS", "root",
                             "Root account has MFA enabled", "") >>
    ELSE << ComplianceResult("SEC-IAM-001", "FAIL", "root",
                             "Root account does not have MFA enabled",
                             "Enable MFA for the root account through the AWS Management Console") >>

\* check_root_mfa: raises says whether get_account_summary raises, mfa is
\* the AccountMFAEnabled value of its answer
check_root_mfa(raises, mfa) ==
    IF raises
    THEN << ComplianceResult("SEC-IAM-001", "ERROR", "root",
                             "Error checking: AccessDenied", "") >>
    ELSE IF mfa = 1
    THEN << ComplianceResult("SEC-IAM-001", "PASS", "root",
                             "Root account has MFA enabled", "") >>
    ELSE << ComplianceResult("SEC-IAM-001", "FAIL", "root",
                             "Root account does not have MFA enabled",
                             "Enable MFA for the root account through the AWS Management Console") >>

\* Variant: a passing key carries advice in its remediation
KeyResult_PassAdvises(k, age_days) ==
    LET username == "user" \o ToString(k)
        key_id == "AKIA" \o ToString(k)
    IN  IF age_days > 90
        THEN ComplianceResult("SEC-IAM-002", "FAIL", username \o "/" \o key_id,
                 "Access key is " \o ToString(age_days) \o " days old (> 90 days)",
                 "Rotate access key for user " \o username)
        ELSE ComplianceResult("SEC-IAM-002", "PASS", username \o "/" \o key_id,
                 "Access key is " \o ToString(age_days) \o " days old (< 90 days)",
                 "Rotate access key for user " \o username)

\* The result check_access_key_rotation appends for the k-th key, of age
\* age_days
KeyResult(k, age_days) ==
    LET username == "user" \o ToString(k)
        key_id == "AKIA" \o ToString(k)
    IN  IF age_days > 90
        THEN ComplianceResult("SEC-IAM-002", "FAIL", username \o "/" \o key_id,
                 "Access key is " \o ToString(age_days) \o " days old (> 90 days)",
                 "Rotate access key for user " \o username)
        ELSE ComplianceResult("SEC-IAM-002", "PASS", username \o "/" \o key_id,
                 "Access key is " \o ToString(age_days) \o " days old (< 90 days)",
                 "")

\* Variant: the except clause appends the ERROR result to the results
\* computed so far instead of returning it alone
check_access_key_rotation_KeepsPartial(ages, fail_at) ==
    IF fail_at > 0
    THEN [k \in 1..(fail_at - 1) |-> KeyResult(k, ages[k])]
         \o << ComplianceResult("SEC-IAM-002", "ERROR", "iam_keys",
                                "Error checking: AccessDenied", "") >>
    ELSE [k \in 1..Len(ages) |-> KeyResult(k, ages[k])]

\* check_access_key_rotation: ages is the sequence of key ages the IAM API
\* lists; fail_at = k > 0 means an API call raises after k - 1 keys were
\* evaluated, fail_at = 0 means none does
check_access_key_rotation(ages, fail_at) ==
    IF fail_at > 0
    THEN << ComplianceResult("SEC-IAM-002", "ERROR", "iam_keys",
                             "Error checking: AccessDenied", "") >>
    ELSE [k \in 1..Len(ages) |-> KeyResult(k, ages[k])]

\* The two results check_default_security_groups appends for one VPC whose
\* default security group has (inbound) / (outbound) rules
VpcResults(k, inbound, outbound) ==
    LET vpc_id == "vpc-" \o ToString(k)
        sg_id == "sg-" \o ToString(k)
    IN  << IF inbound
           THEN ComplianceResult("SEC-VPC-001", "FAIL", sg_id,
                    "Default security group for VPC " \o vpc_id \o " allows inbound traffic",
                    "Remove all inbound rules from the default security group")
           ELSE ComplianceResult("SEC-VPC-001", "PASS", sg_id,
                    "Default security group for VPC " \o vpc_id \o " restricts inbound traffic",
                    ""),
           IF outbound
           THEN ComplianceResult("SEC-VPC-001", "FAIL", sg_id,
                    "Default security group for VPC " \o vpc_id \o " allows outbound traffic",
                    "Remove all outbound rules from the default security group")
           ELSE ComplianceResult("SEC-VPC-001", "PASS", sg_id,
                    "Default security group for VPC " \o vpc_id \o " restricts outbound traffic",
                    "") >>

\* A VPC as the EC2 API describes it: has_sg says whether a default security
\* group is listed for it
Vpcs == [has_sg : BOOLEAN, inbound : BOOLEAN, outbound : BOOLEAN]

RECURSIVE SgLoop(_, _)
SgLoop(vpcs, k) ==
    IF k > Len(vpcs) THEN <<>>
    ELSE (IF ~vpcs[k].has_sg THEN <<>>
          ELSE VpcResults(k, vpcs[k].inbound, vpcs[k].outbound))
         \o SgLoop(vpcs, k + 1)

\* check_default_security_groups: vpcs is what describe_vpcs lists; fails
\* says whether one of the EC2 calls raises
check_default_security_groups(vpcs, fails) ==
    IF fails
    THEN << ComplianceResult("SEC-VPC-001", "ERROR", "security_groups",
                             "Error checking: AccessDenied", "") >>
    ELSE SgLoop(vpcs, 1)

(***************************************************************************)
(* Check outcomes.  An invocation of a check either returns a list of      *)
(* results, returns None, or raises an Exception with a message.           *)
(***************************************************************************)
\* The field partial counts the per-resource results the check had appended
\* to its local list when one of its API calls raised; 0 when none raised.
Returns(value) ==
    [kind |-> "returns", value |-> value, cls |-> "", msg |-> "", partial |-> 0]
ReturnsNone ==
    [kind |-> "none", value |-> <<>>, cls |-> "", msg |-> "", partial |-> 0]
Raises(cls, msg) ==
    [kind |-> "raises", value |-> <<>>, cls |-> cls, msg |-> msg, partial |-> 0]
\* No invocation at all: the rule's check name resolved to nothing
NotInvoked ==
    [kind |-> "not_invoked", value |-> <<>>, cls |-> "", msg |-> "", partial |-> 0]
\* The check returned from its own except clause after an API call raised
\* with partial results already in its local list
ReturnsAfterFailure(value, partial) ==
    [kind |-> "returns", value |-> value, cls |-> "", msg |-> "", partial |-> partial]

\* Plug-in checks: methods an embedding program adds to the scanner.  Like
\* the built-in ones, each writes a fixed rule_id into its results;
\* check_delta writes the id of another rule (the one it was copied from),
\* which the catalog in use may or may not hold.
PluginChecks ==
    [ check_alpha |-> [rule_id |-> "CUST-001", statuses |-> {"PASS", "FAIL"}],
      check_beta  |-> [rule_id |-> "CUST-002", statuses |-> {"WARNING", "NOT_APPLICABLE"}],
      check_delta |-> [rule_id |-> "CUST-001", statuses |-> {"FAIL", "ERROR"}],
      check_epsilon |-> [rule_id |-> "CUST-005", statuses |-> {"FAIL", "WARNING"}] ]

BuiltinChecks == { "check_root_mfa", "check_access_key_rotation",
                   "check_default_security_groups" }

\* The result a plug-in check reports with a given status
PluginResult(name, status) ==
    ComplianceResult(PluginChecks[name].rule_id, status,
                     "res-" \o status, "details of " \o name,
                     IF status \in {"PASS", "NOT_APPLICABLE"} THEN "" ELSE "fix " \o name)

\* What a plug-in check raises: class and str() of the exception
Exceptions == { [cls |-> "ConnectionError", msg |-> "connection refused"] }

KeyAges == { 30, 90, 91 }

\* Everything one invocation of the check bound to (name) can do
CheckOutcomes(name) ==
    IF name = "check_root_mfa"
    THEN { Returns(check_root_mfa(raises, mfa)) : raises \in BOOLEAN, mfa \in 0..1 }
    ELSE IF name = "check_access_key_rotation"
    THEN UNION { { IF fail_at = 0
                     THEN Returns(check_access_key_rotation(ages, fail_at))
                     ELSE ReturnsAfterFailure(check_access_key_rotation(ages, fail_at),
                                              fail_at - 1) :
                     fail_at \in 0..(Len(ages) + 1) } :
                 ages \in SeqsUpTo(KeyAges, MaxKeys) }
    ELSE IF name = "check_default_security_groups"
    THEN UNION { { Returns(check_default_security_groups(vpcs, FALSE)) }
                 \cup { ReturnsAfterFailure(check_default_security_groups(vpcs, TRUE),
                                            Len(SgLoop(SubSeq(vpcs, 1, j), 1))) :
                          j \in 0..Len(vpcs) } :
                 vpcs \in SeqsUpTo(Vpcs, MaxVpcs) }
    ELSE { Returns(v) : v \in SeqsUpTo({ PluginResult(name, st) :
                                           st \in PluginChecks[name].statuses },
                                       MaxPerRule) }
         \cup { ReturnsNone }
         \cup { Raises(e.cls, e.msg) : e \in Exceptions }

(***************************************************************************)
(* scan_all                                                                *)
(***************************************************************************)
None == "None"

\* getattr(self, rule.check_function, None)
GetCheck(check_function) ==
    IF check_function \in BuiltinChecks \cup DOMAIN PluginChecks
    THEN check_function
    ELSE None

\* The ERROR result of the "else" branch: no check of that name
NotImplementedResult(rule) ==
    ComplianceResult(rule.id, "ERROR", "N/A",
        "Check function '" \o rule.check_function \o "' not implemented", "")

\* The ERROR result of the "except Exception as e" branch
ExceptionResult(rule, e) ==
    ComplianceResult(rule.id, "ERROR", "N/A", "Error running check: " \o e, "")

\* str(e) of the TypeError that all_results.extend(None) raises
NoneTypeError == "'NoneType' object is not iterable"

\* The exception the body of the try statement raises for (outcome), Absent
\* if it runs to its end: the check raises, or extend() is handed None
Raised(check_func, outcome) ==
    IF check_func = None THEN Absent
    ELSE CASE outcome.kind = "raises" -> Some([cls |-> outcome.cls, msg |-> outcome.msg])
           [] outcome.kind = "none"   -> Some([cls |-> "TypeError", msg |-> NoneTypeError])
           [] OTHER                   -> Absent

\* Classes derived from Exception
ExceptionClasses == { "ConnectionError", "TypeError", "KeyError", "ValueError" }

\* A narrower clause, "except ConnectionError as e"
ExceptConnectionError(cls) == cls = "ConnectionError"

\* Variant: "except BaseException", which also catches an interrupt
ExceptBaseException(cls) == cls \in ExceptionClasses \cup { "KeyboardInterrupt", "SystemExit" }

\* "except Exception as e": does the clause catch an exception of class cls
ExceptException(cls) == cls \in ExceptionClasses

\* Variant: the except branch rebinds the accumulator to a fresh list
RunRuleBody_HandlerResets(acc, rule, outcome) ==
    LET check_func == GetCheck(rule.check_function)
        exc == Raised(check_func, outcome)
    IN  IF exc # Absent
        THEN << ExceptionResult(rule, exc[1].msg) >>
        ELSE IF check_func # None
        THEN acc \o outcome.value
        ELSE Append(acc, NotImplementedResult(rule))

\* Variant: a missing check is only logged, no result is appended
RunRuleBody_SkipsMissing(acc, rule, outcome) ==
    LET check_func == GetCheck(rule.check_function)
        exc == Raised(check_func, outcome)
    IN  IF exc # Absent
        THEN Append(acc, ExceptionResult(rule, exc[1].msg))
        ELSE IF check_func # None
        THEN acc \o outcome.value
        ELSE acc

\* Variant: the returned results are put in front of the accumulator
RunRuleBody_Prepends(acc, rule, outcome) ==
    LET check_func == GetCheck(rule.check_function)
        exc == Raised(check_func, outcome)
    IN  IF exc # Absent
        THEN Append(acc, ExceptionResult(rule, exc[1].msg))
        ELSE IF check_func # None
        THEN outcome.value \o acc
        ELSE Append(acc, NotImplementedResult(rule))

\* One iteration of "for rule in self.rules" that does not leave scan_all:
\* the accumulator after running (rule) whose check, if the name resolves,
\* behaves as (outcome)
RunRuleBody(acc, rule, outcome) ==
    LET check_func == GetCheck(rule.check_function)
        exc == Raised(check_func, outcome)
    IN  IF exc # Absent
        THEN Append(acc, ExceptionResult(rule, exc[1].msg))
        ELSE IF check_func # None
        THEN acc \o outcome.value
        ELSE Append(acc, NotImplementedResult(rule))

\* sum(1 for r in all_results if Test(r))
SumOnes(rs, Test(_)) == Cardinality({ i \in DOMAIN rs : Test(rs[i]) })

\* Variant: an unknown id falls into the lowest severity
_get_rule_severity_DefaultLow(catalog, rule_id) ==
    IF \E i \in DOMAIN catalog : catalog[i].id = rule_id
    THEN LET first == CHOOSE i \in DOMAIN catalog :
                        /\ catalog[i].id = rule_id
                        /\ \A j \in DOMAIN catalog : catalog[j].id = rule_id => i <= j
         IN  catalog[first].severity
    ELSE "LOW"

\* Variant: after the loop the severity of the loop variable is returned,
\* i.e. that of the last rule, when no id matched
_get_rule_severity_LoopVariable(catalog, rule_id) ==
    IF \E i \in DOMAIN catalog : catalog[i].id = rule_id
    THEN LET first == CHOOSE i \in DOMAIN catalog :
                        /\ catalog[i].id = rule_id
                        /\ \A j \in DOMAIN catalog : catalog[j].id = rule_id => i <= j
         IN  catalog[first].severity
    ELSE IF catalog = <<>> THEN "UNKNOWN" ELSE catalog[Len(catalog)].severity

\* _get_rule_severity: severity of the first rule with that id, else the
\* sentinel
_get_rule_severity(catalog, rule_id) ==
    IF \E i \in DOMAIN catalog : catalog[i].id = rule_id
    THEN LET first == CHOOSE i \in DOMAIN catalog :
                        /\ catalog[i].id = rule_id
                        /\ \A j \in DOMAIN catalog : catalog[j].id = rule_id => i <= j
         IN  catalog[first].severity
    ELSE "UNKNOWN"

\* Variant: every result that did not pass counts as failed
SeverityBucket_FailedIsNotPass(rs, catalog, sev) ==
    [ total  |-> SumOnes(rs, LAMBDA r : _get_rule_severity(catalog, r.rule_id) = sev),
      failed |-> SumOnes(rs, LAMBDA r : _get_rule_severity(catalog, r.rule_id) = sev
                                        /\ r.status \in {"FAIL", "ERROR"}) ]

\* One entry of summary["by_severity"]
SeverityBucket(rs, catalog, sev) ==
    [ total  |-> SumOnes(rs, LAMBDA r : _get_rule_severity(catalog, r.rule_id) = sev),
      failed |-> SumOnes(rs, LAMBDA r : _get_rule_severity(catalog, r.rule_id) = sev
                                        /\ r.status = "FAIL") ]

\* Variant: the total is the sum of the four status counters
Summary_TotalOfCounters(rs, catalog) ==
    [ total_checks |-> SumOnes(rs, LAMBDA r : r.status \in {"PASS", "FAIL", "WARNING", "ERROR"}),
      passed       |-> SumOnes(rs, LAMBDA r : r.status = "PASS"),
      failed       |-> SumOnes(rs, LAMBDA r : r.status = "FAIL"),
      warnings     |-> SumOnes(rs, LAMBDA r : r.status = "WARNING"),
      errors       |-> SumOnes(rs, LAMBDA r : r.status = "ERROR"),
      by_severity  |-> [ sev \in Severities |-> SeverityBucket(rs, catalog, sev) ] ]

\* Variant: everything that is neither PASS, FAIL nor ERROR is a warning
Summary_WarningsCatchAll(rs, catalog) ==
    [ total_checks |-> Len(rs),
      passed       |-> SumOnes(rs, LAMBDA r : r.status = "PASS"),
      failed       |-> SumOnes(rs, LAMBDA r : r.status = "FAIL"),
      warnings     |-> SumOnes(rs, LAMBDA r : r.status \notin {"PASS", "FAIL", "ERROR"}),
      errors       |-> SumOnes(rs, LAMBDA r : r.status = "ERROR"),
      by_severity  |-> [ sev \in Severities |-> SeverityBucket(rs, catalog, sev) ] ]

\* Variant: the counters run over the stored results of earlier scans too
Summary_CountsStored(rs, catalog) ==
    [ total_checks |-> Len(results \o rs),
      passed       |-> SumOnes(results \o rs, LAMBDA r : r.status = "PASS"),
      failed       |-> SumOnes(results \o rs, LAMBDA r : r.status = "FAIL"),
      warnings     |-> SumOnes(results \o rs, LAMBDA r : r.status = "WARNING"),
      errors       |-> SumOnes(results \o rs, LAMBDA r : r.status = "ERROR"),
      by_severity  |-> [ sev \in Severities |-> SeverityBucket(rs, catalog, sev) ] ]

\* Variant: passed counts the leading run of PASS results only
Summary_LeadingPasses(rs, catalog) ==
    [ total_checks |-> Len(rs),
      passed       |-> Cardinality({ i \in DOMAIN rs :
                                       \A j \in 1..i : rs[j].status = "PASS" }),
      failed       |-> SumOnes(rs, LAMBDA r : r.status = "FAIL"),
      warnings     |-> SumOnes(rs, LAMBDA r : r.status = "WARNING"),
      errors       |-> SumOnes(rs, LAMBDA r : r.status = "ERROR"),
      by_severity  |-> [ sev \in Severities |-> SeverityBucket(rs, catalog, sev) ] ]

\* The summary dict scan_all builds from all_results
Summary(rs, catalog) ==
    [ total_checks |-> Len(rs),
      passed       |-> SumOnes(rs, LAMBDA r : r.status = "PASS"),
      failed       |-> SumOnes(rs, LAMBDA r : r.status = "FAIL"),
      warnings     |-> SumOnes(rs, LAMBDA r : r.status = "WARNING"),
      errors       |-> SumOnes(rs, LAMBDA r : r.status = "ERROR"),
      by_severity  |-> [ sev \in Severities |-> SeverityBucket(rs, catalog, sev) ] ]

\* Entry to scan_all: all_results = []
ScanStart ==
    /\ pc = "idle"
    /\ cli \in { "none", "scan" }
    /\ ret = Absent
    /\ pc' = "scanning"
    /\ idx' = 1
    /\ all_results' = <<>>
    /\ calls' = <<>>
    /\ UNCHANGED <<rules, results, ret, csv_file, html_file, cli,
                   fuzzer, runner, tester>>

\* The try statement of one loop iteration, for the rule at idx and a given
\* outcome of its check.  An exception the except clause does not catch
\* leaves scan_all: nothing is stored and nothing is returned.
Invoke(outcome) ==
    LET rule == rules[idx]
        check_func == GetCheck(rule.check_function)
        exc == Raised(check_func, outcome)
    IN  /\ calls' = Append(calls, [ pos |-> idx, check |-> check_func,
                                    outcome |-> outcome ])
        /\ IF exc # Absent /\ ~ExceptException(exc[1].cls)
           THEN /\ pc' = "aborted"
                /\ UNCHANGED <<idx, all_results>>
           ELSE /\ all_results' = RunRuleBody(all_results, rule, outcome)
                /\ idx' = idx + 1
                /\ pc' = pc

\* Variant: a rule whose check failed is run a second time
RunRule_Retries ==
    /\ pc = "scanning"
    /\ idx <= Len(rules)
    /\ LET rule == rules[idx]
           check_func == GetCheck(rule.check_function)
       IN  \E outcome \in (IF check_func # None THEN CheckOutcomes(check_func)
                           ELSE { NotInvoked }) :
             /\ calls' = Append(calls, [ pos |-> idx, check |-> check_func,
                                         outcome |-> outcome ])
             /\ all_results' = RunRuleBody(all_results, rule, outcome)
             /\ idx' = IF /\ Raised(check_func, outcome) # Absent
                          /\ (calls = <<>> \/ calls[Len(calls)].pos # idx)
                       THEN idx ELSE idx + 1
             /\ pc' = pc
    /\ UNCHANGED <<rules, results, ret, csv_file, html_file, cli,
                   fuzzer, runner, tester>>

\* One iteration of the for loop
RunRule ==
    /\ pc = "scanning"
    /\ idx <= Len(rules)
    /\ \E outcome \in (IF GetCheck(rules[idx].check_function) # None
                       THEN CheckOutcomes(rules[idx].check_function)
                       ELSE { NotInvoked }) :
         Invoke(outcome)
    /\ UNCHANGED <<rules, results, ret, csv_file, html_file, cli,
                   fuzzer, runner, tester>>

\* Variant: finishing the scan drops the rules whose check is not implemented
ScanFinish_PrunesCatalog ==
    /\ pc = "scanning"
    /\ idx > Len(rules)
    /\ results' = all_results
    /\ ret' = Some([ summary |-> Summary(all_results, rules), results |-> all_results ])
    /\ pc' = "idle"
    /\ cli' = IF cli = "scan" THEN "csv" ELSE cli
    /\ rules' = SelectSeq(rules, LAMBDA r : GetCheck(r.check_function) # None)
    /\ UNCHANGED <<idx, all_results, csv_file, html_file, calls,
                   fuzzer, runner, tester>>

\* Variant: the summary is built while the last rule is still to be run
ScanFinish_BeforeLastRule ==
    /\ pc = "scanning"
    /\ idx >= Len(rules)
    /\ results' = all_results
    /\ ret' = Some([ summary |-> Summary(all_results, rules), results |-> all_results ])
    /\ pc' = "idle"
    /\ cli' = IF cli = "scan" THEN "csv" ELSE cli
    /\ UNCHANGED <<rules, idx, all_results, csv_file, html_file, calls,
                   fuzzer, runner, tester>>

\* Loop exhausted: store the results, build the summary, return
ScanFinish ==
    /\ pc = "scanning"
    /\ idx > Len(rules)
    /\ results' = all_results
    /\ ret' = Some([ summary |-> Summary(all_results, rules), results |-> all_results ])
    /\ pc' = "idle"
    /\ cli' = IF cli = "scan" THEN "csv" ELSE cli
    /\ UNCHANGED <<rules, idx, all_results, csv_file, html_file, calls,
                   fuzzer, runner, tester>>

(***************************************************************************)
(* Report projection and the exporters                                     *)
(***************************************************************************)
\* The None of "next(..., None)", a record so that fields can be compared
NoRule == ComplianceRule("", "", "", "", "", "")

\* next((r for r in self.rules if r.id == result.rule_id), None)
FindRule(catalog, rule_id) ==
    IF \E i \in DOMAIN catalog : catalog[i].id = rule_id
    THEN catalog[CHOOSE i \in DOMAIN catalog :
                    /\ catalog[i].id = rule_id
                    /\ \A j \in DOMAIN catalog : catalog[j].id = rule_id => i <= j]
    ELSE NoRule

Row(rule_id, title, severity, category, service, status, resource_id, details, remediation) ==
    [ RuleID |-> rule_id, Title |-> title, Severity |-> severity,
      Category |-> category, Service |-> service, Status |-> status,
      ResourceID |-> resource_id, Details |-> details, Remediation |-> remediation ]

\* Variant: the CSV exporter fills Severity and Category from the wrong
\* rule fields
CsvRow_SwapsFields(catalog, result) ==
    LET rule == FindRule(catalog, result.rule_id)
    IN  IF rule # NoRule
        THEN Row(result.rule_id, rule.title, rule.category, rule.severity, rule.service,
                 result.status, result.resource_id, result.details, result.remediation)
        ELSE Row(result.rule_id, "Unknown", "Unknown", "Unknown", "Unknown",
                 result.status, result.resource_id, result.details, result.remediation)

\* The dict export_results_csv appends to data for one result
CsvRow(catalog, result) ==
    LET rule == FindRule(catalog, result.rule_id)
    IN  IF rule # NoRule
        THEN Row(result.rule_id, rule.title, rule.severity, rule.category, rule.service,
                 result.status, result.resource_id, result.details, result.remediation)
        ELSE Row(result.rule_id, "Unknown", "Unknown", "Unknown", "Unknown",
                 result.status, result.resource_id, result.details, result.remediation)

\* Variant: the HTML exporter uses the sentinel of the severity lookup
HtmlRow_UpperCaseSentinel(catalog, result) ==
    LET rule == FindRule(catalog, result.rule_id)
    IN  IF rule # NoRule
        THEN Row(result.rule_id, rule.title, rule.severity, rule.category, rule.service,
                 result.status, result.resource_id, result.details, result.remediation)
        ELSE Row(result.rule_id, "Unknown", "UNKNOWN", "Unknown", "Unknown",
                 result.status, result.resource_id, result.details, result.remediation)

\* The dict export_results_html appends to data for one result
HtmlRow(catalog, result) ==
    LET rule == FindRule(catalog, result.rule_id)
    IN  IF rule # NoRule
        THEN Row(result.rule_id, rule.title, rule.severity, rule.category, rule.service,
                 result.status, result.resource_id, result.details, result.remediation)
        ELSE Row(result.rule_id, "Unknown", "Unknown", "Unknown", "Unknown",
                 result.status, result.resource_id, result.details, result.remediation)

\* export_results_csv: nothing is written when self.results is empty
export_results_csv ==
    /\ pc = "idle"
    /\ cli \in { "none", "csv" }
    /\ cli' = IF cli = "csv" THEN "html" ELSE cli
    /\ csv_file' = IF results = <<>> THEN csv_file
                   ELSE Some([ i \in DOMAIN results |-> CsvRow(rules, results[i]) ])
    /\ UNCHANGED <<rules, results, pc, idx, all_results, ret, html_file, calls,
                   fuzzer, runner, tester>>

\* Variant: the exporter's own count of failures takes every non-passing
\* result, unlike the summary's
export_results_html_RecountsFailed ==
    /\ pc = "idle"
    /\ cli \in { "none", "html" }
    /\ cli' = IF cli = "html" THEN "report" ELSE cli
    /\ html_file' =
         IF results = <<>> THEN html_file
         ELSE Some(
              [ total_checks |-> Len(results),
                passed   |-> SumOnes(results, LAMBDA r : r.status = "PASS"),
                failed   |-> SumOnes(results, LAMBDA r : r.status # "PASS"),
                warnings |-> SumOnes(results, LAMBDA r : r.status = "WARNING"),
                errors   |-> SumOnes(results, LAMBDA r : r.status = "ERROR"),
                rows     |-> [ i \in DOMAIN results |-> HtmlRow(rules, results[i]) ] ])
    /\ UNCHANGED <<rules, results, pc, idx, all_results, ret, csv_file, calls,
                   fuzzer, runner, tester>>

\* export_results_html: the summary block is counted from self.results
export_results_html ==
    /\ pc = "idle"
    /\ cli \in { "none", "html" }
    /\ cli' = IF cli = "html" THEN "report" ELSE cli
    /\ html_file' =
         IF results = <<>> THEN html_file
         ELSE Some(
              [ total_checks |-> Len(results),
                passed   |-> SumOnes(results, LAMBDA r : r.status = "PASS"),
                failed   |-> SumOnes(results, LAMBDA r : r.status = "FAIL"),
                warnings |-> SumOnes(results, LAMBDA r : r.status = "WARNING"),
                errors   |-> SumOnes(results, LAMBDA r : r.status = "ERROR"),
                rows     |-> [ i \in DOMAIN results |-> HtmlRow(rules, results[i]) ] ])
    /\ UNCHANGED <<rules, results, pc, idx, all_results, ret, csv_file, calls,
                   fuzzer, runner, tester>>

(***************************************************************************)
(* The other programs of the repository: the API fuzzer, the test runner   *)
(* and the EKS integration tester.                                         *)
(***************************************************************************)
\* Bounds of the fuzzing runs: rounds of one fuzz_parameter call, entries
\* of self.endpoints, and requests sent in one behaviour
MaxRounds == 2
MaxEndpoints == 1
MaxTests == 4

\* default_params of fuzz_all_endpoints: {"q": "string", "id": "number"}
DefaultParams == << "q", "id" >>

\* ApiFuzzer.__init__: the four entries of self.results.  The other fields
\* are the position of the calls under way: rounds and i of the
\* fuzz_parameter call, the value of total_tests when it began, and the
\* number of fuzz_parameter calls fuzz_all_endpoints still has to make.
NewApiFuzzer ==
    [ total_tests |-> 0, failures |-> 0, success |-> 0, issues |-> <<>>,
      pc |-> "idle", rounds |-> 0, i |-> 0, started_at |-> 0, queue |-> 0 ]

\* The five phases of TestRunner.run_all_tests, in the order it runs them
Phases == << "api_tests", "load_tests", "security_tests", "infrastructure_tests",
             "metric_generation" >>

\* TestRunner.__init__ with a configuration: config says for each phase
\* whether its section has "enabled" true ("on"), has it false ("off") or
\* is missing; results lists the entries of self.results in insertion order
NewTestRunner(config) ==
    [ config |-> config, results |-> <<>>, pc |-> "idle", summary |-> Absent ]

\* The configuration built in when no file is given: every phase enabled
DefaultConfig == [ p \in 1..Len(Phases) |-> "on" ]

\* The four tests of EksIntegrationTester.run_all_tests, in its order
Tests == << "test_eks_cluster_health", "test_prometheus_integration",
            "test_amp_workspace", "test_grafana_workspace" >>

\* EksIntegrationTester.__init__: test_results is empty ("absent" for every
\* test; otherwise the healthy flag of the entry, "healthy" or "unhealthy");
\* tests is the results dict the run under way has filled so far, all_passed
\* the value the last finished run returned.  exit is the exit status of
\* validate_infrastructure: "pending" while the command runs, "none" when
\* the tester is used without it; error says an exception reached the
\* command's except clauses.
NewEksIntegrationTester ==
    [ test_results |-> [ t \in 1..Len(Tests) |-> "absent" ],
      tests |-> <<>>, pc |-> "idle", all_passed |-> Absent,
      exit |-> "none", error |-> FALSE ]

\* The scanner is used alone: the other programs are in their initial state
NoOtherPrograms ==
    /\ fuzzer = NewApiFuzzer
    /\ runner = NewTestRunner(DefaultConfig)
    /\ tester = NewEksIntegrationTester

(***************************************************************************)
(* Specification                                                           *)
(***************************************************************************)
\* State after SecurityComplianceScanner(...) was built and its catalog set
Init ==
    /\ rules \in Catalogs
    /\ results = <<>>
    /\ pc = "idle"
    /\ idx = 1
    /\ all_results = <<>>
    /\ ret = Absent
    /\ csv_file = Absent
    /\ html_file = Absent
    /\ calls = <<>>
    /\ cli = "none"
    /\ NoOtherPrograms

\* A three-rule catalog: Alpha, Beta, and a rule whose check reports FAIL and
\* WARNING results
ScenarioCatalog ==
    << ComplianceRule("CUST-001", "Alpha", "CRITICAL", "SECURITY", "IAM", "check_alpha"),
       ComplianceRule("CUST-002", "Beta", "LOW", "COST", "S3", "check_beta"),
       ComplianceRule("CUST-005", "Epsilon", "HIGH", "SECURITY", "GENERAL", "check_epsilon") >>

\* A scanner whose catalog was set to the three-rule catalog
InitScenario ==
    /\ rules = ScenarioCatalog
    /\ results = <<>>
    /\ pc = "idle"
    /\ idx = 1
    /\ all_results = <<>>
    /\ ret = Absent
    /\ csv_file = Absent
    /\ html_file = Absent
    /\ calls = <<>>
    /\ cli = "none"
    /\ NoOtherPrograms

Next ==
    \/ ScanStart
    \/ RunRule
    \/ ScanFinish
    \/ export_results_csv
    \/ export_results_html

Spec == Init /\ [][Next]_vars

\* A scanner as the constructor leaves it: the catalog is the default one
InitDefault ==
    /\ rules = DefaultRules
    /\ results = <<>>
    /\ pc = "idle"
    /\ idx = 1
    /\ all_results = <<>>
    /\ ret = Absent
    /\ csv_file = Absent
    /\ html_file = Absent
    /\ calls = <<>>
    /\ cli = "none"
    /\ NoOtherPrograms

SpecDefault == InitDefault /\ [][Next]_vars

\* Variant: the accumulator of a repeated scan is the stored result list
ScanAgain_KeepsResults ==
    /\ pc = "idle"
    /\ ret # Absent
    /\ pc' = "scanning"
    /\ idx' = 1
    /\ all_results' = results
    /\ calls' = <<>>
    /\ UNCHANGED <<rules, results, ret, csv_file, html_file, cli,
                   fuzzer, runner, tester>>

\* scan_all called again on a scanner that was scanned before
ScanAgain ==
    /\ pc = "idle"
    /\ ret # Absent
    /\ pc' = "scanning"
    /\ idx' = 1
    /\ all_results' = <<>>
    /\ calls' = <<>>
    /\ UNCHANGED <<rules, results, ret, csv_file, html_file, cli,
                   fuzzer, runner, tester>>

\* Catalogs of the scanners that are scanned repeatedly
RescanCatalogs ==
    { c \in CustomCatalogs :
        /\ Len(c) <= MaxRescanRules
        /\ \A i \in DOMAIN c : c[i].check_function \in { "check_alpha", "check_beta" } }

InitRescan ==
    /\ rules \in RescanCatalogs
    /\ results = <<>>
    /\ pc = "idle"
    /\ idx = 1
    /\ all_results = <<>>
    /\ ret = Absent
    /\ csv_file = Absent
    /\ html_file = Absent
    /\ calls = <<>>
    /\ cli = "none"
    /\ NoOtherPrograms

NextRescan ==
    \/ ScanStart
    \/ ScanAgain
    \/ RunRule
    \/ ScanFinish

SpecRescan == InitRescan /\ [][NextRescan]_vars

\* Results the loop of scan_all can have collected: any status under one
\* rule id, and two statuses under another
CollectableResults ==
    { PluginResult("check_alpha", st) : st \in Statuses }
    \cup { PluginResult("check_beta", st) : st \in { "PASS", "FAIL" } }

\* scan_all at the end of its loop, for every collected list up to a length
InitAggregate ==
    /\ rules \in RescanCatalogs
    /\ results = <<>>
    /\ pc = "scanning"
    /\ idx = Len(rules) + 1
    /\ all_results \in SeqsUpTo(CollectableResults, MaxCollected)
    /\ ret = Absent
    /\ csv_file = Absent
    /\ html_file = Absent
    /\ calls = <<>>
    /\ cli = "none"
    /\ NoOtherPrograms

NextAggregate == ScanFinish

SpecAggregate == InitAggregate /\ [][NextAggregate]_vars

SpecScenario == InitScenario /\ [][Next]_vars

\* check_func() is a plain synchronous call (line 324): a check that blocks,
\* such as an AWS request that is never answered, keeps the loop inside the
\* call.  Nothing in scan_all bounds the call, so no step follows.
CheckHangs ==
    /\ pc = "scanning"
    /\ idx <= Len(rules)
    /\ GetCheck(rules[idx].check_function) # None
    /\ pc' = "in_check"
    /\ UNCHANGED <<rules, results, idx, all_results, ret, csv_file, html_file,
                   calls, cli,
                   fuzzer, runner, tester>>

NextTimeout == ScanStart \/ RunRule \/ CheckHangs \/ ScanFinish

\* The interpreter keeps executing the scan as long as it has a step to take
SpecTimeout == Init /\ [][NextTimeout]_vars /\ WF_vars(NextTimeout)

\* Cancellation: the user interrupts the process while scan_all runs.
\* Python raises KeyboardInterrupt in the main thread, either inside the
\* check in flight or in the loop between two checks.  KeyboardInterrupt is
\* not an Exception, so neither the checks' handlers nor the one of scan_all
\* (line 330) stops it.
Interrupt ==
    /\ pc = "scanning"
    /\ \/ /\ idx <= Len(rules)
          /\ GetCheck(rules[idx].check_function) # None
          /\ Invoke(Raises("KeyboardInterrupt", ""))
       \/ /\ pc' = "aborted"
          /\ UNCHANGED <<idx, all_results, calls>>
    /\ UNCHANGED <<rules, results, ret, csv_file, html_file, cli,
                   fuzzer, runner, tester>>

NextCancel == ScanStart \/ RunRule \/ Interrupt \/ ScanFinish

SpecCancel == Init /\ [][NextCancel]_vars

\* The compliance_scan command (cli.py).  Its try body imports the scanner
\* module, builds a scanner, which loads the default catalog, and then calls
\* scan_all, export_results_csv and export_results_html in that order.
CliConstruct ==
    /\ cli = "start"
    /\ NoOtherPrograms
    /\ rules' = DefaultRules
    /\ cli' = "scan"
    /\ UNCHANGED <<results, pc, idx, all_results, ret, csv_file, html_file, calls,
                   fuzzer, runner, tester>>

\* An exception reaches the except clauses of compliance_scan: the import
\* fails, a boto3 client cannot be built, an export cannot write its file,
\* or something left scan_all.  Both clauses end in sys.exit(1).
CliFails ==
    /\ \/ cli \in { "start", "csv", "html" }
       \/ cli = "scan" /\ pc = "aborted"
    /\ cli' = "exit1"
    /\ UNCHANGED <<rules, results, pc, idx, all_results, ret, csv_file, html_file,
                   calls,
                   fuzzer, runner, tester>>

\* Variant: the command fails the process when the scan reported problems
CliReport_GatesOnFindings ==
    /\ cli = "report"
    /\ cli' = IF ret[1].summary.errors + ret[1].summary.failed > 0
              THEN "exit1" ELSE "exit0"
    /\ UNCHANGED <<rules, results, pc, idx, all_results, ret, csv_file, html_file,
                   calls,
                   fuzzer, runner, tester>>

\* The summary line is echoed and the command returns
CliReport ==
    /\ cli = "report"
    /\ cli' = "exit0"
    /\ UNCHANGED <<rules, results, pc, idx, all_results, ret, csv_file, html_file,
                   calls,
                   fuzzer, runner, tester>>

\* State at the start of the command: no scanner exists yet
InitCli ==
    /\ rules = <<>>
    /\ results = <<>>
    /\ pc = "idle"
    /\ idx = 1
    /\ all_results = <<>>
    /\ ret = Absent
    /\ csv_file = Absent
    /\ html_file = Absent
    /\ calls = <<>>
    /\ cli = "start"
    /\ NoOtherPrograms

NextCli ==
    \/ CliConstruct
    \/ CliFails
    \/ ScanStart
    \/ RunRule
    \/ ScanFinish
    \/ export_results_csv
    \/ export_results_html
    \/ CliReport

SpecCli == InitCli /\ [][NextCli]_vars

\* What one round of fuzz_parameter can meet: a response with status 500 or
\* more, any other response, or an exception raised by requests
RoundOutcomes == { "5xx", "other", "exception" }

\* fuzz_parameter called on its own, with rounds of the caller's choice
fuzz_parameter ==
    /\ fuzzer.pc = "idle"
    /\ \E rounds \in 0..MaxRounds :
         /\ fuzzer.total_tests + rounds <= MaxTests
         /\ fuzzer' = [fuzzer EXCEPT !.pc = "rounds", !.rounds = rounds, !.i = 0,
                                     !.started_at = fuzzer.total_tests, !.queue = 0]
    /\ UNCHANGED <<scanner_vars, runner, tester>>

\* fuzz_all_endpoints: one fuzz_parameter call per endpoint and default
\* parameter, each with rounds_per_endpoint rounds; the first call begins
fuzz_all_endpoints ==
    /\ fuzzer.pc = "idle"
    /\ \E endpoints \in 1..MaxEndpoints, rounds_per_endpoint \in 0..MaxRounds :
         /\ fuzzer.total_tests + endpoints * Len(DefaultParams) * rounds_per_endpoint
              <= MaxTests
         /\ fuzzer' = [fuzzer EXCEPT !.pc = "rounds", !.rounds = rounds_per_endpoint,
                                     !.i = 0, !.started_at = fuzzer.total_tests,
                                     !.queue = endpoints * Len(DefaultParams) - 1]
    /\ UNCHANGED <<scanner_vars, runner, tester>>

\* Variant: the exception is raised after the try body counted the round, so
\* the except clause counts it again
FuzzRound_CountsRaisedTwice ==
    /\ fuzzer.pc = "rounds"
    /\ fuzzer.i < fuzzer.rounds
    /\ \E outcome \in RoundOutcomes :
         fuzzer' =
           CASE outcome = "5xx" ->
                  [fuzzer EXCEPT !.total_tests = @ + 1, !.failures = @ + 1,
                                 !.issues = Append(@, "status_code"), !.i = @ + 1]
             [] outcome = "other" ->
                  [fuzzer EXCEPT !.total_tests = @ + 1, !.success = @ + 1, !.i = @ + 1]
             [] outcome = "exception" ->
                  [fuzzer EXCEPT !.total_tests = @ + 2, !.failures = @ + 1,
                                 !.issues = Append(@, "exception"), !.i = @ + 1]
    /\ UNCHANGED <<scanner_vars, runner, tester>>

\* One round of the for loop of fuzz_parameter (lines 212-270)
FuzzRound ==
    /\ fuzzer.pc = "rounds"
    /\ fuzzer.i < fuzzer.rounds
    /\ \E outcome \in RoundOutcomes :
         fuzzer' =
           CASE outcome = "5xx" ->
                  [fuzzer EXCEPT !.total_tests = @ + 1, !.failures = @ + 1,
                                 !.issues = Append(@, "status_code"), !.i = @ + 1]
             [] outcome = "other" ->
                  [fuzzer EXCEPT !.total_tests = @ + 1, !.success = @ + 1, !.i = @ + 1]
             [] outcome = "exception" ->
                  [fuzzer EXCEPT !.total_tests = @ + 1, !.failures = @ + 1,
                                 !.issues = Append(@, "exception"), !.i = @ + 1]
    /\ UNCHANGED <<scanner_vars, runner, tester>>

\* fuzz_parameter returns; inside fuzz_all_endpoints the next call begins
FuzzReturn ==
    /\ fuzzer.pc = "rounds"
    /\ fuzzer.i = fuzzer.rounds
    /\ fuzzer' = IF fuzzer.queue > 0
                 THEN [fuzzer EXCEPT !.i = 0, !.started_at = fuzzer.total_tests,
                                     !.queue = @ - 1]
                 ELSE [fuzzer EXCEPT !.pc = "idle"]
    /\ UNCHANGED <<scanner_vars, runner, tester>>

\* State after ApiFuzzer(...) was built; the scanner is not in use
InitFuzzer ==
    /\ rules = DefaultRules
    /\ results = <<>>
    /\ pc = "idle"
    /\ idx = 1
    /\ all_results = <<>>
    /\ ret = Absent
    /\ csv_file = Absent
    /\ html_file = Absent
    /\ calls = <<>>
    /\ cli = "none"
    /\ NoOtherPrograms

NextFuzzer == fuzz_parameter \/ fuzz_all_endpoints \/ FuzzRound \/ FuzzReturn

SpecFuzzer == InitFuzzer /\ [][NextFuzzer]_vars

\* Configurations a TestRunner can be built with
Configs == [ 1..Len(Phases) -> { "on", "off", "missing" } ]

\* run_all_tests is called
RunnerStart ==
    /\ runner.pc = "idle"
    /\ runner.summary = Absent
    /\ runner' = [runner EXCEPT !.pc = "running"]
    /\ UNCHANGED <<scanner_vars, fuzzer, tester>>

\* Variant: an exception in a phase leaves run_all_tests
RunPhase_ErrorLeavesRun ==
    /\ runner.pc = "running"
    /\ Len(runner.results) < Len(Phases)
    /\ LET p == Len(runner.results) + 1
       IN  IF runner.config[p] # "on"
           THEN runner' = [runner EXCEPT
                             !.results = Append(@, [phase |-> Phases[p], status |-> "skipped"])]
           ELSE \E raised \in BOOLEAN :
                  runner' = IF raised
                            THEN [runner EXCEPT !.pc = "crashed"]
                            ELSE [runner EXCEPT
                                    !.results = Append(@, [phase |-> Phases[p],
                                                           status |-> "completed"])]
    /\ UNCHANGED <<scanner_vars, fuzzer, tester>>

\* The next run_..._tests call of run_all_tests and the assignment of its
\* return value to self.results.  A phase whose section is not enabled
\* returns "skipped" at once; otherwise its body runs inside try, and an
\* exception raised there is turned into "error" by the except clause.
RunPhase ==
    /\ runner.pc = "running"
    /\ Len(runner.results) < Len(Phases)
    /\ LET p == Len(runner.results) + 1
       IN  IF runner.config[p] # "on"
           THEN runner' = [runner EXCEPT
                             !.results = Append(@, [phase |-> Phases[p], status |-> "skipped"])]
           ELSE \E raised \in BOOLEAN :
                  runner' = [runner EXCEPT
                               !.results = Append(@, [phase |-> Phases[p],
                                                      status |-> IF raised THEN "error"
                                                                 ELSE "completed"])]
    /\ UNCHANGED <<scanner_vars, fuzzer, tester>>

\* After the fifth phase: the summary's test_types, then the report
RunnerFinish ==
    /\ runner.pc = "running"
    /\ Len(runner.results) = Len(Phases)
    /\ runner' = [runner EXCEPT
                    !.pc = "done",
                    !.summary = Some([ p \in 1..Len(Phases) |-> runner.results[p].status ])]
    /\ UNCHANGED <<scanner_vars, fuzzer, tester>>

\* State after TestRunner(config_file) was built
InitRunner ==
    /\ rules = DefaultRules
    /\ results = <<>>
    /\ pc = "idle"
    /\ idx = 1
    /\ all_results = <<>>
    /\ ret = Absent
    /\ csv_file = Absent
    /\ html_file = Absent
    /\ calls = <<>>
    /\ cli = "none"
    /\ fuzzer = NewApiFuzzer
    /\ runner \in { NewTestRunner(config) : config \in Configs }
    /\ tester = NewEksIntegrationTester

NextRunner == RunnerStart \/ RunPhase \/ RunnerFinish

SpecRunner == InitRunner /\ [][NextRunner]_vars

\* The ways through a test method.  Each test has the path that stores a
\* result with healthy true, the one that stores a result with healthy false,
\* and the except clause; the others are the early returns.
TestPaths(t) ==
    { "healthy", "unhealthy", "exception" }
    \cup (IF Tests[t] = "test_prometheus_integration"
          THEN { "no_namespace", "no_pods" } ELSE {})
    \cup (IF Tests[t] \in { "test_amp_workspace", "test_grafana_workspace" }
          THEN { "no_workspaces", "no_matching_workspace" } ELSE {})

\* What the test method returns on a path
TestReturns(path) == path = "healthy"

\* The entry of self.test_results after a path was taken: every path stores
\* an entry but the early return of test_prometheus_integration for a
\* missing namespace (lines 105-107), which leaves the entry as it was
TestEntry(entry, path) ==
    CASE path = "healthy"      -> "healthy"
      [] path = "no_namespace" -> entry
      [] OTHER                 -> "unhealthy"

\* run_all_tests is called: by a program that uses the tester directly, any
\* number of times, or once by validate_infrastructure
TesterStart ==
    /\ tester.pc = "idle"
    /\ tester.exit = "none" \/ (tester.exit = "pending" /\ tester.all_passed = Absent)
    /\ tester' = [tester EXCEPT !.pc = "running", !.tests = <<>>, !.all_passed = Absent]
    /\ UNCHANGED <<scanner_vars, fuzzer, runner>>

\* One iteration of the for loop of run_all_tests (lines 270-280)
RunTest ==
    /\ tester.pc = "running"
    /\ Len(tester.tests) < Len(Tests)
    /\ LET t == Len(tester.tests) + 1
       IN  \E path \in TestPaths(t) :
             tester' = [tester EXCEPT
                          !.test_results[t] = TestEntry(@, path),
                          !.tests = Append(@, [ test_name |-> Tests[t],
                                                success |-> TestReturns(path) ])]
    /\ UNCHANGED <<scanner_vars, fuzzer, runner>>

\* Variant: the overall result passes when any test passed
TesterFinish_AnyPassed ==
    /\ tester.pc = "running"
    /\ Len(tester.tests) = Len(Tests)
    /\ tester' = [tester EXCEPT
                    !.pc = "idle",
                    !.all_passed = Some(\E k \in DOMAIN tester.tests : tester.tests[k].success)]
    /\ UNCHANGED <<scanner_vars, fuzzer, runner>>

\* After the loop: all_passed and the return (lines 282-291)
TesterFinish ==
    /\ tester.pc = "running"
    /\ Len(tester.tests) = Len(Tests)
    /\ tester' = [tester EXCEPT
                    !.pc = "idle",
                    !.all_passed = Some(\A k \in DOMAIN tester.tests : tester.tests[k].success)]
    /\ UNCHANGED <<scanner_vars, fuzzer, runner>>

\* validate_infrastructure ends.  An exception before the run (import,
\* construction) or after it (writing the results file) reaches the except
\* clauses, which exit with 1; otherwise the command exits with 1 when
\* all_passed is false (line 141) and returns normally when it is true.
ValidateExit ==
    /\ tester.exit = "pending"
    /\ tester.pc = "idle"
    /\ \E raised \in BOOLEAN :
         /\ tester.all_passed = Absent => (raised /\ tester.tests = <<>>)
         /\ tester' = [tester EXCEPT
                         !.error = raised,
                         !.exit = IF raised \/ ~tester.all_passed[1] THEN "1" ELSE "0"]
    /\ UNCHANGED <<scanner_vars, fuzzer, runner>>

\* State after EksIntegrationTester(...) was built, by a program of its own
\* or by validate_infrastructure
InitEks ==
    /\ rules = DefaultRules
    /\ results = <<>>
    /\ pc = "idle"
    /\ idx = 1
    /\ all_results = <<>>
    /\ ret = Absent
    /\ csv_file = Absent
    /\ html_file = Absent
    /\ calls = <<>>
    /\ cli = "none"
    /\ fuzzer = NewApiFuzzer
    /\ runner = NewTestRunner(DefaultConfig)
    /\ tester \in { [NewEksIntegrationTester EXCEPT !.exit = e] : e \in { "none", "pending" } }

NextEks == TesterStart \/ RunTest \/ TesterFinish \/ ValidateExit

SpecEks == InitEks /\ [][NextEks]_vars

(***************************************************************************)
(* Properties                                                              *)
(***************************************************************************)
\* A scan has returned
Finished == ret # Absent

\* The result sequence the finished scan returned
Output == ret[1].results

\* Number of results the k-th loop iteration is expected to contribute: what
\* the check returned, or the single synthesised ERROR result
SegLen(k) ==
    IF calls[k].outcome.kind = "returns" THEN Len(calls[k].outcome.value) ELSE 1

\* Position in the output of the first result of the k-th iteration
RECURSIVE SegStart(_)
SegStart(k) == IF k = 1 THEN 1 ELSE SegStart(k - 1) + SegLen(k - 1)

\* The iterations account for every position of the output
SegmentsCoverOutput == SegStart(Len(calls) + 1) = Len(Output) + 1

\* The part of the output that belongs to the k-th iteration
Segment(k) == SubSeq(Output, SegStart(k), SegStart(k) + SegLen(k) - 1)

\* The k-th iteration ended in an error outcome
Errored(k) == calls[k].outcome.kind \in { "raises", "none", "not_invoked" }

\* C1: whatever the checks do (return results, return None, are missing,
\* raise), no failure leaves scan_all: the scan is never aborted, every
\* iteration so far ran the rule at its catalog position, and a finished scan
\* ran every rule of the catalog and returned a summary with the results.
C1_ScanNeverAborts ==
    /\ pc # "aborted"
    /\ pc = "scanning" => /\ Len(calls) = idx - 1
                          /\ ENABLED (RunRule \/ ScanFinish)
    /\ \A k \in DOMAIN calls : calls[k].pos = k
    /\ Finished => /\ Len(calls) = Len(rules)
                   /\ Output = all_results
                   /\ Len(Output) >= Cardinality({ k \in DOMAIN calls : Errored(k) })

\* C1 witness: a finished scan of at least two rules in which every rule
\* errored, a check that raised being followed by a later rule
C1_Witness ==
    /\ Finished
    /\ Len(rules) >= 2
    /\ \A k \in DOMAIN calls : Errored(k)
    /\ \E k \in DOMAIN calls : calls[k].outcome.kind = "none"
    /\ \E k \in DOMAIN calls : calls[k].outcome.kind = "raises" /\ k < Len(rules)

\* C2: if the check of the rule at position k raised, the output holds
\* exactly one result for that invocation (ERROR, the rule's id, details with
\* the failure message), the results of every other rule are exactly what
\* its check returned, and the per-rule parts make up the whole output.
C2_RaiseYieldsOneError ==
    Finished =>
      \A k \in DOMAIN calls :
        calls[k].outcome.kind = "raises" =>
          /\ SegmentsCoverOutput
          /\ Len(Segment(k)) = 1
          /\ Segment(k)[1].status = "ERROR"
          /\ Segment(k)[1].rule_id = rules[k].id
          /\ Segment(k)[1].details = "Error running check: " \o calls[k].outcome.msg
          /\ \A j \in DOMAIN calls \ { k } :
               calls[j].outcome.kind = "returns" => Segment(j) = calls[j].outcome.value

\* C2 witness: a finished scan where a check raised and the check of a later
\* rule returned two results
C2_Witness ==
    /\ Finished
    /\ \E k, j \in DOMAIN calls :
         /\ k < j
         /\ calls[k].outcome.kind = "raises"
         /\ calls[j].outcome.kind = "returns" /\ Len(calls[j].outcome.value) >= 2

\* The check name of the rule at position k is bound to no method
Unresolved(k) ==
    rules[k].check_function \notin BuiltinChecks \cup DOMAIN PluginChecks

\* C3: a rule whose check name is bound to no implementation yields exactly
\* one result: ERROR, resource_id "N/A", the rule's id, details saying the
\* check is not implemented; and the scan goes on to the next rule.
C3_UnresolvedYieldsOneError ==
    /\ Finished =>
         \A k \in DOMAIN rules :
           Unresolved(k) =>
             /\ calls[k].outcome.kind = "not_invoked"
             /\ SegmentsCoverOutput
             /\ Segment(k) = << [ rule_id |-> rules[k].id,
                                  status |-> "ERROR",
                                  resource_id |-> "N/A",
                                  details |-> "Check function '" \o rules[k].check_function
                                              \o "' not implemented",
                                  remediation |-> "" ] >>
    /\ \A k \in DOMAIN calls :
         Unresolved(k) /\ k < Len(rules) /\ pc = "scanning" /\ idx = k + 1
           => ENABLED RunRule

\* C3 witness: a finished scan whose catalog has an unresolved rule that is
\* followed by a rule whose check returned results
C3_Witness ==
    /\ Finished
    /\ \E k, j \in DOMAIN calls :
         /\ k < j
         /\ Unresolved(k)
         /\ calls[j].outcome.kind = "returns" /\ Len(calls[j].outcome.value) >= 1

\* C4: every loop iteration leaves the results of the earlier rules in
\* place and puts its own results right after them, a check's results in the
\* order it returned them; the returned sequence is that accumulator.  So
\* results of rule i precede those of rule j whenever i < j.
C4_CatalogOrder ==
    [][ /\ (pc = "scanning" /\ idx' = idx + 1) =>
             /\ Len(all_results') >= Len(all_results)
             /\ SubSeq(all_results', 1, Len(all_results)) = all_results
             /\ calls'[idx].outcome.kind = "returns" =>
                  SubSeq(all_results', Len(all_results) + 1, Len(all_results'))
                    = calls'[idx].outcome.value
             /\ calls'[idx].outcome.kind # "returns" =>
                  /\ Len(all_results') = Len(all_results) + 1
                  /\ all_results'[Len(all_results')].rule_id = rules[idx].id
        /\ (ret = Absent /\ ret' # Absent) => ret'[1].results = all_results
      ]_vars

\* C4 witness: a finished scan in which two successive rules each returned
\* two different results
C4_Witness ==
    /\ Finished
    /\ \E k \in DOMAIN calls :
         /\ k + 1 \in DOMAIN calls
         /\ \A j \in { k, k + 1 } :
              /\ calls[j].outcome.kind = "returns"
              /\ Len(calls[j].outcome.value) = 2
              /\ calls[j].outcome.value[1] # calls[j].outcome.value[2]

\* The summary the finished scan returned
TheSummary == ret[1].summary

\* Number of results of the output with a status in sts
RECURSIVE NumStatus(_, _)
NumStatus(rs, sts) ==
    IF rs = <<>> THEN 0
    ELSE (IF Head(rs).status \in sts THEN 1 ELSE 0) + NumStatus(Tail(rs), sts)

\* Result r carries the id of a catalog rule whose severity is in sevs
ResolvesTo(r, sevs) ==
    \E j \in DOMAIN rules : rules[j].id = r.rule_id /\ rules[j].severity \in sevs

\* Result r carries the id of some catalog rule
Resolves(r) == \E j \in DOMAIN rules : rules[j].id = r.rule_id

\* Number of results whose rule has a severity in sevs and whose status is
\* in sts
RECURSIVE NumSeverity(_, _, _)
NumSeverity(rs, sevs, sts) ==
    IF rs = <<>> THEN 0
    ELSE (IF ResolvesTo(Head(rs), sevs) /\ Head(rs).status \in sts THEN 1 ELSE 0)
         + NumSeverity(Tail(rs), sevs, sts)

\* Sum of the four per-severity totals / failed counts of the summary
SumSeverityTotals ==
    TheSummary.by_severity["CRITICAL"].total + TheSummary.by_severity["HIGH"].total
    + TheSummary.by_severity["MEDIUM"].total + TheSummary.by_severity["LOW"].total

SumSeverityFailed ==
    TheSummary.by_severity["CRITICAL"].failed + TheSummary.by_severity["HIGH"].failed
    + TheSummary.by_severity["MEDIUM"].failed + TheSummary.by_severity["LOW"].failed

\* C5: the summary's total_checks is the number of results returned,
\* whatever their statuses and whether or not their rule_id resolves.
C5_TotalIsLength ==
    Finished => TheSummary.total_checks = Len(Output)

\* C5 witness: a finished scan whose output has a NOT_APPLICABLE result, an
\* ERROR result and a result whose rule_id is not in the catalog
C5_Witness ==
    /\ Finished
    /\ \E i \in DOMAIN Output : Output[i].status = "NOT_APPLICABLE"
    /\ \E i \in DOMAIN Output : Output[i].status = "ERROR"
    /\ \E i \in DOMAIN Output : ~Resolves(Output[i])

\* C6: the four per-severity totals sum to at most the number of results,
\* and to exactly that number iff every result's rule_id resolves to a
\* catalog rule with one of the four known severities.
C6_SeverityTotalsBound ==
    Finished =>
      /\ SumSeverityTotals <= Len(Output)
      /\ (SumSeverityTotals = Len(Output))
           <=> (\A i \in DOMAIN Output : ResolvesTo(Output[i], Severities))

\* C6 witness: a finished scan where every rule_id resolves, one of them to a
\* rule with a severity outside the four, so that the sum falls short
C6_Witness ==
    /\ Finished
    /\ \A i \in DOMAIN Output : Resolves(Output[i])
    /\ \E i \in DOMAIN Output : ~ResolvesTo(Output[i], Severities)
    /\ \E i \in DOMAIN Output : ResolvesTo(Output[i], Severities)
    /\ SumSeverityTotals < Len(Output)

\* C7: passed, failed, warnings and errors count the PASS, FAIL, WARNING and
\* ERROR results; NOT_APPLICABLE results are in the total only, so the four
\* counters sum to the total minus the number of NOT_APPLICABLE results.
C7_StatusCounters ==
    Finished =>
      /\ TheSummary.passed = NumStatus(Output, {"PASS"})
      /\ TheSummary.failed = NumStatus(Output, {"FAIL"})
      /\ TheSummary.warnings = NumStatus(Output, {"WARNING"})
      /\ TheSummary.errors = NumStatus(Output, {"ERROR"})
      /\ TheSummary.passed + TheSummary.failed + TheSummary.warnings + TheSummary.errors
           = TheSummary.total_checks - NumStatus(Output, {"NOT_APPLICABLE"})

\* C7 witness: a finished scan with a NOT_APPLICABLE, a WARNING and a FAIL
\* result
C7_Witness ==
    /\ Finished
    /\ NumStatus(Output, {"NOT_APPLICABLE"}) >= 1
    /\ NumStatus(Output, {"WARNING"}) >= 1
    /\ NumStatus(Output, {"FAIL"}) >= 1

\* C8: per severity S, total counts the results whose rule has severity S
\* and failed those of them with status FAIL (not ERROR, not WARNING); so
\* failed <= total per bucket and the four failed counts sum to at most the
\* global failed count.
C8_SeverityBuckets ==
    Finished =>
      /\ \A S \in Severities :
           /\ TheSummary.by_severity[S].total = NumSeverity(Output, {S}, Statuses)
           /\ TheSummary.by_severity[S].failed = NumSeverity(Output, {S}, {"FAIL"})
           /\ TheSummary.by_severity[S].failed <= TheSummary.by_severity[S].total
      /\ SumSeverityFailed <= TheSummary.failed

\* C8 witness: a finished scan with a severity bucket that holds a FAIL and
\* an ERROR result
C8_Witness ==
    /\ Finished
    /\ \E S \in Severities :
         /\ NumSeverity(Output, {S}, {"FAIL"}) >= 1
         /\ NumSeverity(Output, {S}, {"ERROR"}) >= 1
         /\ TheSummary.by_severity[S].failed < TheSummary.by_severity[S].total

\* C9: the severity lookup gives a catalog rule's severity for its id and
\* "UNKNOWN" for an id the catalog does not hold; a result with such an id
\* is in no severity bucket and the scan still returns its summary.
C9_LookupSentinel ==
    /\ \A j \in DOMAIN rules : _get_rule_severity(rules, rules[j].id) = rules[j].severity
    /\ \A i \in DOMAIN all_results :
         ~Resolves(all_results[i])
           => _get_rule_severity(rules, all_results[i].rule_id) = "UNKNOWN"
    /\ (pc = "scanning" /\ idx > Len(rules)) => ENABLED ScanFinish
    /\ Finished =>
         SumSeverityTotals <= Cardinality({ i \in DOMAIN Output : Resolves(Output[i]) })

\* C9 witness: a finished scan whose output mixes a result that resolves
\* with one that does not
C9_Witness ==
    /\ Finished
    /\ \E i \in DOMAIN Output : ~Resolves(Output[i])
    /\ \E i \in DOMAIN Output : ResolvesTo(Output[i], Severities)
    /\ SumSeverityTotals >= 1

\* The result's own fields pass through to the row, the rule's fields are
\* the "Unknown" sentinel
UnknownRow(row, r) ==
    /\ row.Title = "Unknown" /\ row.Severity = "Unknown"
    /\ row.Category = "Unknown" /\ row.Service = "Unknown"
    /\ row.RuleID = r.rule_id /\ row.Status = r.status
    /\ row.ResourceID = r.resource_id /\ row.Details = r.details
    /\ row.Remediation = r.remediation

\* C10: in the CSV and in the HTML export, the row of a result whose rule_id
\* is absent from the catalog has title, severity, category and service
\* "Unknown" and the result's rule_id, status, resource_id, details and
\* remediation unchanged.
C10_UnknownProjection ==
    /\ csv_file # Absent =>
         \A i \in DOMAIN results :
           ~Resolves(results[i]) => UnknownRow(csv_file[1][i], results[i])
    /\ html_file # Absent =>
         \A i \in DOMAIN results :
           ~Resolves(results[i]) => UnknownRow(html_file[1].rows[i], results[i])

\* C10 witness: both files were written from results that hold a result
\* whose rule_id is absent from the catalog, with a non-empty remediation
C10_Witness ==
    /\ csv_file # Absent
    /\ html_file # Absent
    /\ \E i \in DOMAIN results : ~Resolves(results[i]) /\ results[i].remediation # ""

\* The nine fields of a report row
RowFields == { "RuleID", "Title", "Severity", "Category", "Service", "Status",
               "ResourceID", "Details", "Remediation" }

\* rows is the projection of the stored results: one row per result in the
\* order of the results, each with the nine fields, the rule fields of a
\* result that resolves being those of the catalog rule with its id
ProjectsResults(rows) ==
    /\ Len(rows) = Len(results)
    /\ \A i \in DOMAIN results :
         /\ DOMAIN rows[i] = RowFields
         /\ rows[i].RuleID = results[i].rule_id
         /\ rows[i].Status = results[i].status
         /\ rows[i].ResourceID = results[i].resource_id
         /\ \A j \in DOMAIN rules :
              rules[j].id = results[i].rule_id =>
                /\ rows[i].Title = rules[j].title
                /\ rows[i].Severity = rules[j].severity
                /\ rows[i].Category = rules[j].category
                /\ rows[i].Service = rules[j].service

\* C11: each exporter builds exactly one row per result, in the order of the
\* results, each with the nine fields; for a result whose rule_id matches a
\* catalog rule the title, severity, category and service are that rule's;
\* and both exporters build the same rows from the same results.
C11_OneRowPerResult ==
    /\ csv_file # Absent => ProjectsResults(csv_file[1])
    /\ html_file # Absent => ProjectsResults(html_file[1].rows)
    /\ (csv_file # Absent /\ html_file # Absent) => csv_file[1] = html_file[1].rows

\* C11 witness: both files were written from at least three results of two
\* different catalog rules
C11_Witness ==
    /\ csv_file # Absent
    /\ html_file # Absent
    /\ Len(results) >= 3
    /\ \E i, k \in DOMAIN results :
         /\ i < k
         /\ results[i].rule_id # results[k].rule_id
         /\ ResolvesTo(results[i], Severities)
         /\ ResolvesTo(results[k], Severities)

\* The statuses of a result sequence, in order
StatusesOf(rs) == [ i \in DOMAIN rs |-> rs[i].status ]

\* The end-to-end scenario: Rule1's check returned one PASS, Rule2's check
\* raised, Rule3's check returned a FAIL then a WARNING
ScenarioRan ==
    /\ Finished
    /\ Len(calls) = 3
    /\ calls[1].outcome.kind = "returns" /\ StatusesOf(calls[1].outcome.value) = << "PASS" >>
    /\ calls[2].outcome.kind = "raises"
    /\ calls[3].outcome.kind = "returns"
    /\ StatusesOf(calls[3].outcome.value) = << "FAIL", "WARNING" >>

\* C12: in the end-to-end scenario the scan returns exactly four results
\* with statuses PASS, ERROR, FAIL, WARNING in that order and the summary
\* has total 4, passed 1, failed 1, warnings 1, errors 1.
C12_EndToEnd ==
    ScenarioRan =>
      /\ StatusesOf(Output) = << "PASS", "ERROR", "FAIL", "WARNING" >>
      /\ TheSummary.total_checks = 4
      /\ TheSummary.passed = 1
      /\ TheSummary.failed = 1
      /\ TheSummary.warnings = 1
      /\ TheSummary.errors = 1

\* C12 witness: the scenario ran on the three-rule catalog
C12_Witness == ScenarioRan /\ Len(rules) = 3

\* C13: the summary depends on the results and the catalog only: a scan that
\* ends with the same results as the scan before it, on the same catalog,
\* returns the same summary; building the summary leaves the catalog alone
\* and returns and stores the results as they were collected.
C13_SummaryIsPure ==
    [][ (pc = "scanning" /\ pc' = "idle") =>
          /\ rules' = rules
          /\ ret'[1].results = all_results
          /\ results' = all_results
          /\ all_results' = all_results
          /\ (ret # Absent /\ ret[1].results = all_results)
               => ret'[1].summary = ret[1].summary
      ]_vars

\* C13 witness: a repeated scan is about to finish with the same, non-empty
\* results as the scan before it
C13_Witness ==
    /\ pc = "scanning"
    /\ idx > Len(rules)
    /\ ret # Absent
    /\ ret[1].results = all_results
    /\ Len(all_results) >= 2

\* rs with the results at positions i and i + 1 exchanged
SwapAdjacent(rs, i) ==
    [ k \in DOMAIN rs |-> IF k = i THEN rs[i + 1] ELSE IF k = i + 1 THEN rs[i] ELSE rs[k] ]

\* C14: the summary does not depend on the order of the results: exchanging
\* two neighbouring results leaves all five global counts and all four
\* per-severity pairs as they are.  The collected lists are all lists up to a
\* length over a set of results, so every permutation is covered.
C14_OrderIndependent ==
    Finished =>
      \A i \in 1..(Len(Output) - 1) :
        Summary(SwapAdjacent(Output, i), rules) = TheSummary

\* C14 witness: a summary of three results of different statuses, one of
\* them with a rule_id the catalog does not hold
C14_Witness ==
    /\ Finished
    /\ Len(Output) = 3
    /\ Output[1].status = "PASS"
    /\ Output[2].status = "ERROR"
    /\ Output[3].status = "FAIL"
    /\ \E i \in DOMAIN Output : ~Resolves(Output[i])
    /\ \E i \in DOMAIN Output : ResolvesTo(Output[i], Severities)

\* Number of invocations recorded for the rule at catalog position k
Invocations(k) == Cardinality({ i \in DOMAIN calls : calls[i].pos = k })

\* C15: no retries.  Within one scan the loop visits catalog positions in
\* strictly increasing order, so no rule is visited twice; a rule's check is
\* invoked exactly when its name resolves; after an iteration that ended in
\* an error the loop stands at the next rule with that rule's single ERROR
\* result last in the collection; and a finished scan visited every rule once.
C15_NoRetries ==
    /\ \A i, j \in DOMAIN calls : i < j => calls[i].pos < calls[j].pos
    /\ \A i \in DOMAIN calls :
         (calls[i].outcome.kind = "not_invoked") <=> Unresolved(calls[i].pos)
    /\ (pc = "scanning" /\ calls # <<>> /\ Errored(Len(calls))) =>
         /\ idx = calls[Len(calls)].pos + 1
         /\ all_results # <<>>
         /\ all_results[Len(all_results)].status = "ERROR"
         /\ all_results[Len(all_results)].rule_id = rules[idx - 1].id
    /\ Finished => \A k \in DOMAIN rules : Invocations(k) = 1

\* A finished scan in which a resolvable check raised and a later rule ran
C15_Witness ==
    /\ Finished
    /\ \E k \in DOMAIN calls :
         /\ calls[k].outcome.kind = "raises"
         /\ ~Unresolved(calls[k].pos)
         /\ k < Len(calls)

\* C16: a check that does not return is cut off and turned into an ERROR
\* result, so a scan that has started always eventually returns.
C16_ScanAlwaysCompletes == (pc = "scanning") ~> Finished

\* The k-th iteration was cut short by a user interrupt
Interrupted(k) ==
    calls[k].outcome.kind = "raises" /\ calls[k].outcome.cls = "KeyboardInterrupt"

\* C17: once the scan is cancelled no further rule's check begins: an
\* interrupted invocation is the last one of the scan, and a cancelled scan
\* has no loop iteration left to take and returns nothing.
C17_NoRuleAfterCancel ==
    /\ \A k \in DOMAIN calls : Interrupted(k) => (k = Len(calls) /\ pc = "aborted")
    /\ pc = "aborted" => (~ENABLED RunRule /\ ret = Absent)

\* A scan cancelled during its second or a later check, with rules left
C17_Witness ==
    /\ pc = "aborted"
    /\ Len(calls) >= 2
    /\ Interrupted(Len(calls))
    /\ idx < Len(rules)

C19_ExitStatus ==
    /\ [](cli = "scan" => pc # "aborted")
    /\ [](cli = "csv" => (Finished /\ ENABLED export_results_csv))
    /\ [](cli = "html" => ENABLED export_results_html)
    /\ [](cli \in { "report", "exit0" } =>
            /\ Finished
            /\ rules = DefaultRules
            /\ \A k \in DOMAIN rules : Invocations(k) = 1
            /\ csv_file # Absent /\ html_file # Absent)
    /\ [][ /\ (cli' = "exit1" /\ cli # "exit1") => cli \in { "start", "csv", "html" }
           /\ cli = "report" => cli' = "exit0" ]_vars

\* The command exited with status zero after a scan with errors and failures
C19_Witness ==
    /\ cli = "exit0"
    /\ TheSummary.errors >= 1
    /\ TheSummary.failed >= 1

\* C20: in every state the loaded catalog holds no two rules with the same
\* id, so looking a rule up by its id finds that rule and no other.
C20_UniqueRuleIds ==
    /\ \A i, j \in DOMAIN rules : rules[i].id = rules[j].id => i = j
    /\ \A i \in DOMAIN rules :
         /\ FindRule(rules, rules[i].id) = rules[i]
         /\ _get_rule_severity(rules, rules[i].id) = rules[i].severity

\* The default catalog after a scan whose results were exported, which looks
\* up the rule of every result
C20_Witness ==
    /\ rules = DefaultRules
    /\ Finished
    /\ csv_file # Absent
    /\ \E i, j \in DOMAIN rules : i # j /\ rules[i].title # rules[j].title

\* C21: the catalog is read-only.  No step of a scan (start, a rule's
\* dispatch, the summary and return) and no export changes the catalog: its
\* length, the order of its rules and every field of every rule stay as
\* they were.
C21_CatalogReadOnly ==
    [][ /\ Len(rules') = Len(rules)
        /\ \A i \in DOMAIN rules : rules'[i] = rules[i] ]_vars

\* A scan of a catalog with an unimplemented rule finished and both exports ran
C21_Witness ==
    /\ Finished
    /\ csv_file # Absent
    /\ html_file # Absent
    /\ \E k \in DOMAIN rules : Unresolved(k)
    /\ \E k \in DOMAIN rules : ~Unresolved(k)

\* The part of a result sequence rs that the k-th iteration of the scan in
\* progress, or of the latest finished one, accounts for
SegmentOf(rs, k) == SubSeq(rs, SegStart(k), SegStart(k) + SegLen(k) - 1)

\* C22: no state is carried from one scan to the next.  The accumulator of a
\* scan, first or repeated, holds the contributions of this scan's iterations
\* and nothing else, and once the scan has returned, the stored results and
\* the returned ones are that accumulator.
C22_NoStateBetweenScans ==
    /\ SegStart(Len(calls) + 1) = Len(all_results) + 1
    /\ \A k \in DOMAIN calls :
         IF calls[k].outcome.kind = "returns"
         THEN SegmentOf(all_results, k) = calls[k].outcome.value
         ELSE /\ SegmentOf(all_results, k)[1].status = "ERROR"
              /\ SegmentOf(all_results, k)[1].rule_id = rules[calls[k].pos].id
    /\ (pc = "idle" /\ Finished) => (results = all_results /\ Output = all_results)

\* A repeated scan has run all its rules and collected results that differ
\* from the non-empty ones the scan before it stored
C22_Witness ==
    /\ pc = "scanning"
    /\ idx > Len(rules)
    /\ ret # Absent
    /\ results # <<>>
    /\ all_results # <<>>
    /\ all_results # results

\* Every result of rs with status PASS or NOT_APPLICABLE has no remediation
NoRemediationWhenFine(rs) ==
    \A i \in DOMAIN rs :
        rs[i].status \in { "PASS", "NOT_APPLICABLE" } => rs[i].remediation = ""

\* C23: in a scan of the default catalog, every result collected so far,
\* returned by a built-in check or synthesised by scan_all, and every stored
\* result, has an empty remediation when its status is PASS or
\* NOT_APPLICABLE.
C23_PassHasNoRemediation ==
    rules = DefaultRules =>
        /\ NoRemediationWhenFine(all_results)
        /\ NoRemediationWhenFine(results)
        /\ Finished => NoRemediationWhenFine(Output)

\* A finished scan of the default catalog with a passing key, a passing
\* security group and a failing result that carries a remediation
C23_Witness ==
    /\ rules = DefaultRules
    /\ Finished
    /\ \E i \in DOMAIN Output : Output[i].status = "PASS" /\ Output[i].rule_id = "SEC-IAM-002"
    /\ \E i \in DOMAIN Output : Output[i].status = "PASS" /\ Output[i].rule_id = "SEC-VPC-001"
    /\ \E i \in DOMAIN Output : Output[i].status = "FAIL" /\ Output[i].remediation # ""

\* The k-th iteration ran a built-in check that failed after it had already
\* computed per-resource results
FailedPartWay(k) == calls[k].outcome.partial > 0

\* C24: no partial recovery.  An invocation of check_access_key_rotation or
\* check_default_security_groups that fails after some resources were
\* evaluated contributes exactly one result to the output of the scan, an
\* ERROR result under its rule's id that names no single resource; none of
\* the per-resource results computed before the failure is in the output.
C24_NoPartialResults ==
    Finished =>
        /\ SegmentsCoverOutput
        /\ \A k \in DOMAIN calls :
             FailedPartWay(k) =>
                 /\ SegLen(k) = 1
                 /\ Segment(k)[1].status = "ERROR"
                 /\ Segment(k)[1].rule_id = rules[k].id
                 /\ Segment(k)[1].resource_id \in { "iam_keys", "security_groups" }

\* A finished scan in which check_access_key_rotation failed after it had
\* evaluated a key
C24_Witness ==
    /\ Finished
    /\ \E k \in DOMAIN calls :
         /\ calls[k].check = "check_access_key_rotation"
         /\ FailedPartWay(k)

\* C25: with the default catalog, every result that the iteration for a rule
\* put into the collection, returned by the rule's built-in check or
\* synthesised by scan_all, carries that rule's id; so every collected and
\* every stored result resolves in the catalog.
C25_ResultsAttributable ==
    rules = DefaultRules =>
        /\ SegStart(Len(calls) + 1) = Len(all_results) + 1
        /\ \A k \in DOMAIN calls :
             \A i \in 1..SegLen(k) :
                 SegmentOf(all_results, k)[i].rule_id = rules[calls[k].pos].id
        /\ \A i \in DOMAIN all_results : Resolves(all_results[i])
        /\ \A i \in DOMAIN results : Resolves(results[i])

\* A finished scan of the default catalog in which every built-in check
\* returned results, one of them more than one, and the unimplemented rules
\* got their synthesised results
C25_Witness ==
    /\ rules = DefaultRules
    /\ Finished
    /\ \A k \in 1..3 : calls[k].outcome.kind = "returns" /\ SegLen(k) >= 1
    /\ \E k \in 1..3 : SegLen(k) >= 2
    /\ \E k \in 1..3 : FailedPartWay(k)
    /\ Len(calls) = Len(rules)

\* C26: rules run strictly one after the other.  While the scan is under
\* way the rules before idx, and only they, have been run and their results
\* are all in the collection; while a check is in flight no other check can
\* be invoked and the scan cannot return; and the summary is built in the
\* one step that follows the last rule, from the complete collection.
C26_StrictlySequential ==
    /\ [](pc \in { "scanning", "in_check" } =>
            /\ Len(calls) = idx - 1
            /\ \A k \in DOMAIN calls : calls[k].pos = k
            /\ SegStart(Len(calls) + 1) = Len(all_results) + 1)
    /\ [](pc = "in_check" => (~ENABLED RunRule /\ ~ENABLED ScanFinish))
    /\ [][ ret' # ret =>
             /\ idx = Len(rules) + 1
             /\ Len(calls) = Len(rules)
             /\ ret'[1].results = all_results
             /\ ret'[1].summary = Summary(all_results, rules)
             /\ ret'[1].summary.total_checks = SegStart(Len(rules) + 1) - 1 ]_vars

\* A finished scan of several rules in which the last rule contributed
\* results
C26_Witness ==
    /\ Finished
    /\ Len(rules) >= 2
    /\ calls[Len(calls)].outcome.kind = "returns"
    /\ SegLen(Len(calls)) >= 1
    /\ SegLen(1) >= 1

\* C27: whatever the rounds met, total_tests is the sum of success and
\* failures, there is one recorded issue per failure, and each round of the
\* fuzz_parameter call under way, or of the one that returned last, was
\* counted once: total_tests grew by the number of rounds done, which is
\* rounds once the call has returned.
C27_FuzzerCounters ==
    /\ fuzzer.total_tests = fuzzer.success + fuzzer.failures
    /\ Len(fuzzer.issues) = fuzzer.failures
    /\ fuzzer.total_tests = fuzzer.started_at + fuzzer.i
    /\ fuzzer.pc = "idle" => fuzzer.i = fuzzer.rounds

\* Several calls have returned after rounds of all three kinds
C27_Witness ==
    /\ fuzzer.pc = "idle"
    /\ fuzzer.total_tests >= 3
    /\ fuzzer.started_at > 0
    /\ fuzzer.success >= 1
    /\ \E k \in DOMAIN fuzzer.issues : fuzzer.issues[k] = "status_code"
    /\ \E k \in DOMAIN fuzzer.issues : fuzzer.issues[k] = "exception"

C29_AllPassedAndExit ==
    /\ Len(tester.tests) <= Len(Tests)
    /\ \A k \in DOMAIN tester.tests : tester.tests[k].test_name = Tests[k]
    /\ (tester.pc = "running" /\ Len(tester.tests) < Len(Tests)) => ENABLED RunTest
    /\ tester.all_passed # Absent =>
         /\ Len(tester.tests) = Len(Tests)
         /\ tester.all_passed[1] = (\A k \in DOMAIN tester.tests : tester.tests[k].success)
    /\ tester.exit \in { "0", "1" } =>
         ((tester.exit = "1") <=> (tester.error \/ tester.all_passed = Some(FALSE)))
    /\ tester.exit = "0" => tester.all_passed = Some(TRUE)

\* The command exited with 1 after a run whose first test failed and whose
\* later tests passed, with no error
C29_Witness ==
    /\ tester.exit = "1"
    /\ ~tester.error
    /\ Len(tester.tests) = Len(Tests)
    /\ ~tester.tests[1].success
    /\ \A k \in 2..Len(Tests) : tester.tests[k].success

\* C30: after run_all_tests the details hold an entry for each of the four
\* tests, and the entry's healthy flag is the success value of the test.
C30_DetailsMatchTests ==
    tester.all_passed # Absent =>
        \A k \in DOMAIN tester.tests :
            /\ tester.test_results[k] # "absent"
            /\ (tester.test_results[k] = "healthy") <=> tester.tests[k].success

====
